---- MODULE Spec2Model ----
(***************************************************************************)
(* A model of server.py: a socketserver.TCPServer on port 8080 whose       *)
(* request handler is http.server.SimpleHTTPRequestHandler with            *)
(* end_headers overridden to add the two cross-origin isolation headers.   *)
(*                                                                         *)
(* The main thread is modelled by pc; the handler of an accepted          *)
(* connection runs in the main thread (TCPServer.process_request is        *)
(* synchronous) and is modelled step by step, because a KeyboardInterrupt  *)
(* can arrive between any two statements.                                  *)
(***************************************************************************)
EXTENDS Integers, Sequences, FiniteSets, TLC

\* ------------------------------------------------------------------ bounds

\* Number of client connections ever opened.
MaxConns == 3
\* Number of clock ticks (the clock feeds the Date header).
MaxClock == 1

\* --------------------------------------------------------------- constants

PORT == 8080

\* BaseHTTPRequestHandler.protocol_version, inherited by CORSRequestHandler.
ProtocolVersion == "HTTP/1.0"

Banner ==
  << "Server running at http://localhost:8080",
     "SharedArrayBuffer headers enabled for FFMPEG.wasm support",
     "Press Ctrl+C to stop" >>

\* ---------------------------------------------------------------- headers

\* One line of a header block: a header "k: v"; time-valued headers carry
\* their time in t; the status line is k = protocol, v = message, t = code.
Hdr(k, v) == [k |-> k, v |-> v, t |-> 0]
HdrT(k, t) == [k |-> k, v |-> "", t |-> t]
StatusLine(code, msg) == [k |-> ProtocolVersion, v |-> msg, t |-> code]
BlankLine == [k |-> "", v |-> "", t |-> 0]

COOP == Hdr("Cross-Origin-Opener-Policy", "same-origin")
COEP == Hdr("Cross-Origin-Embedder-Policy", "credentialless")

\* ----------------------------------------------- served directory (fixture)

\* The working directory holds index.html and an empty-of-index directory sub.
Paths == {"/", "/index.html", "/does-not-exist", "/sub", "/sub/"}
IsDir(p) == p \in {"/", "/sub", "/sub/"}
EndsWithSlash(p) == p \in {"/", "/sub/"}
IndexOf(p) == IF p = "/" THEN "/index.html" ELSE ""
IsFile(p) == p = "/index.html"
\* st_mtime of a served file.
FileMTime(p) == 0

\* --------------------------------------------------------------- requests

Methods == {"GET", "HEAD", "POST"}
Versions == {"HTTP/1.0", "HTTP/1.1", "HTTP/2.0", "FTP/1.1"}

Req(raw, words, conn, expect, ims) ==
  [raw |-> raw, words |-> words, conn |-> conn, expect |-> expect, ims |-> ims]

RequestLines ==
  {<<m, p, "HTTP/1.1">> : m \in Methods, p \in Paths}
    \cup {<<"GET", "/index.html", v>> : v \in Versions}
    \cup {<<m, p>> : m \in {"GET", "POST"}, p \in {"/index.html", "/does-not-exist"}}
    \cup {<<>>, <<"GET">>, <<"GET", "/index.html", "x", "HTTP/1.1">>}

\* raw: "eof" (the client closed without sending), "long" (a request line of
\* more than 65536 bytes), "line" (a request line of the given words).
\* ims: the request carries an If-Modified-Since not older than the file.
Requests ==
  {Req("line", w, "", FALSE, FALSE) : w \in RequestLines}
    \cup {Req("line", <<"GET", "/index.html", "HTTP/1.1">>, "keep-alive", TRUE, FALSE),
          Req("line", <<"GET", "/index.html", "HTTP/1.1">>, "close", FALSE, TRUE),
          Req("line", <<"GET", "/index.html">>, "", FALSE, TRUE),
          Req("long", <<>>, "", FALSE, FALSE),
          Req("eof", <<>>, "", FALSE, FALSE)}

NoReq == Req("none", <<>>, "", FALSE, FALSE)

\* ------------------------------------------------- BaseHTTPRequestHandler

\* version.split('/')..., int(major), int(minor); <<>> stands for ValueError.
VersionNumber(v) ==
  CASE v = "HTTP/1.0" -> <<1, 0>>
    [] v = "HTTP/1.1" -> <<1, 1>>
    [] v = "HTTP/2.0" -> <<2, 0>>
    [] OTHER -> <<>>

\* Tuple comparison a >= b of version numbers.
VersionGE(a, b) == a[1] > b[1] \/ (a[1] = b[1] /\ a[2] >= b[2])

\* String comparison s >= "HTTP/1.1" over the strings a version field holds.
StrGE11(s) == s \in {"HTTP/1.1", "HTTP/2.0"}

\* A response the base handler is about to produce: send_response (or
\* send_response_only when only) of code, the headers it then sets, the body
\* it writes after end_headers ("" for none).
Planned(code, msg, only, hdrs, body) ==
  [code |-> code, msg |-> msg, only |-> only, hdrs |-> hdrs, body |-> body]

\* send_error(code, message): headers, and the HTML body unless HEAD.
SendError(code, msg, command) ==
  Planned(code, msg, FALSE,
          << Hdr("Connection", "close") >>
            \o (IF code >= 200 /\ code \notin {204, 205, 304}
                THEN << Hdr("Content-Type", "text/html;charset=utf-8"),
                        Hdr("Content-Length", "len(error-html)") >>
                ELSE << >>),
          IF command # "HEAD" /\ code >= 200 /\ code \notin {204, 205, 304}
          THEN "error-html" ELSE "")

\* SimpleHTTPRequestHandler.send_head and list_directory, for do_GET/do_HEAD.
SendHead(command, path, ims) ==
  LET file(p) ==
        IF ~IsFile(p)
        THEN SendError(404, "File not found", command)
        ELSE IF ims
        THEN Planned(304, "Not Modified", FALSE, << >>, "")
        ELSE Planned(200, "OK", FALSE,
                     << Hdr("Content-type", "text/html"),
                        Hdr("Content-Length", "len(file)"),
                        HdrT("Last-Modified", FileMTime(p)) >>,
                     IF command = "GET" THEN "file" ELSE "")
  IN IF IsDir(path)
     THEN IF ~EndsWithSlash(path)
          THEN Planned(301, "Moved Permanently", FALSE,
                       << Hdr("Location", "/sub/"), Hdr("Content-Length", "0") >>, "")
          ELSE IF IndexOf(path) # ""
          THEN file(IndexOf(path))
          ELSE Planned(200, "OK", FALSE,
                       << Hdr("Content-type", "text/html; charset=utf-8"),
                          Hdr("Content-Length", "len(listing)") >>,
                       IF command = "GET" THEN "listing" ELSE "")
     ELSE file(path)

\* The handler object's fields.
NewHandler ==
  [step |-> "readline", request_version |-> "HTTP/0.9", command |-> "",
   close_connection |-> TRUE, headers_buffer |-> << >>, todo |-> << >>,
   flushed |-> FALSE, status |-> 0, date |-> 0]

\* parse_request: the fields it sets and the responses it and the dispatch
\* of handle_one_request go on to produce.
ParseRequest(h, req) ==
  LET words == req.words
      n == Len(words)
      version == IF n >= 3 THEN words[n] ELSE "HTTP/0.9"
      vn == VersionNumber(version)
      h0 == [h EXCEPT !.command = "", !.request_version = "HTTP/0.9",
                      !.close_connection = TRUE]
      err(hh, code, msg) == [hh EXCEPT !.todo = << SendError(code, msg, hh.command) >>]
  IN IF n = 0 THEN h0
     ELSE IF n >= 3 /\ vn = << >>
     THEN err(h0, 400, "Bad request version")
     ELSE LET h1 == IF n >= 3 /\ VersionGE(vn, <<1, 1>>) /\ StrGE11(ProtocolVersion)
                    THEN [h0 EXCEPT !.close_connection = FALSE] ELSE h0
          IN IF n >= 3 /\ VersionGE(vn, <<2, 0>>)
             THEN err(h1, 505, "Invalid HTTP version")
             ELSE LET h2 == IF n >= 3 THEN [h1 EXCEPT !.request_version = version] ELSE h1
                  IN IF ~(2 <= n /\ n <= 3)
                     THEN err(h2, 400, "Bad request syntax")
                     ELSE LET h3 == IF n = 2 THEN [h2 EXCEPT !.close_connection = TRUE] ELSE h2
                          IN IF n = 2 /\ words[1] # "GET"
                             THEN err(h3, 400, "Bad HTTP/0.9 request type")
                             ELSE LET h4 == [h3 EXCEPT !.command = words[1],
                                               !.close_connection =
                                                 IF req.conn = "close" THEN TRUE
                                                 ELSE IF req.conn = "keep-alive"
                                                         /\ StrGE11(ProtocolVersion)
                                                 THEN FALSE ELSE @]
                                      cont == IF req.expect /\ StrGE11(ProtocolVersion)
                                                 /\ StrGE11(h4.request_version)
                                              THEN << Planned(100, "Continue", TRUE, << >>, "") >>
                                              ELSE << >>
                                      final == IF words[1] \in {"GET", "HEAD"}
                                               THEN SendHead(words[1], words[2], req.ims)
                                               ELSE SendError(501, "Unsupported method", words[1])
                                  IN [h4 EXCEPT !.todo = cont \o << final >>]

\* handle_one_request up to the first response.
HandleOneRequest(h, req) ==
  IF req.raw = "long"
  THEN [h EXCEPT !.request_version = "", !.command = "",
                 !.todo = << SendError(414, "Request-URI Too Long", "") >>]
  ELSE IF req.raw = "eof"
  THEN [h EXCEPT !.close_connection = TRUE]
  ELSE ParseRequest(h, req)

\* send_header: buffer the line unless HTTP/0.9; a Connection header also
\* sets close_connection.
SendHeader(h, hdr) ==
  LET h1 == IF h.request_version # "HTTP/0.9"
            THEN [h EXCEPT !.headers_buffer = Append(@, hdr)] ELSE h
  IN IF hdr.k = "Connection" /\ hdr.v = "close"
     THEN [h1 EXCEPT !.close_connection = TRUE]
     ELSE IF hdr.k = "Connection" /\ hdr.v = "keep-alive"
     THEN [h1 EXCEPT !.close_connection = FALSE]
     ELSE h1

SendResponseOnly(h, code, msg) ==
  IF h.request_version # "HTTP/0.9"
  THEN [h EXCEPT !.headers_buffer = Append(@, StatusLine(code, msg))]
  ELSE h

\* send_response: log the code, the status line, Server and Date.
SendResponse(h, code, msg, t) ==
  SendHeader(
    SendHeader(SendResponseOnly([h EXCEPT !.status = code, !.date = t], code, msg),
               Hdr("Server", "SimpleHTTP/0.6")),
    HdrT("Date", t))

RECURSIVE SendHeaders(_, _)
SendHeaders(h, hdrs) ==
  IF hdrs = << >> THEN h ELSE SendHeaders(SendHeader(h, Head(hdrs)), Tail(hdrs))

\* The base handler's calls for one planned response, up to end_headers.
StartResponse(h, t) ==
  LET p == Head(h.todo)
      h1 == IF p.only THEN SendResponseOnly(h, p.code, p.msg)
            ELSE SendResponse(h, p.code, p.msg, t)
  IN [SendHeaders(h1, p.hdrs) EXCEPT !.flushed = FALSE]

\* A response as the client receives it: the header block (empty when none
\* was sent) and the body ("" while none was sent).
Response(lines, body) == [lines |-> lines, body |-> body]

\* BaseHTTPRequestHandler.end_headers with flush_headers: <<handler, wfile>>.
BaseEndHeaders(h, wfile) ==
  IF h.request_version # "HTTP/0.9"
  THEN << [h EXCEPT !.headers_buffer = << >>, !.flushed = TRUE],
          Append(wfile, Response(Append(h.headers_buffer, BlankLine), "")) >>
  ELSE << h, wfile >>

\* wfile.write(body) after end_headers.
WriteBodyTo(h, wfile, body) ==
  IF body = "" THEN wfile
  ELSE IF h.flushed
  THEN [wfile EXCEPT ![Len(wfile)].body = body]
  ELSE Append(wfile, Response(<< >>, body))

\* ------------------------------------------------------------------ state

VARIABLES
  pc,         \* main thread: "construct" (line 20), "print" (lines 21-23),
              \* "serve" (line 24), "unwind" (leaving the with block), "exited"
  exc,        \* the exception propagating in the main thread, or "none"
  httpd,      \* the TCPServer object: server_address and its listening socket
  portHeld,   \* another process is bound to the port
  nBind,      \* calls of socket.bind made
  stdout,     \* lines printed
  pending,    \* connections in the listen queue, not yet accepted
  nConn,      \* connections clients have opened
  nAccepted,  \* connections accepted
  conns,      \* accepted connections not yet closed normally: id -> connection
  kept,       \* one connection that was served and closed earlier
  now         \* the clock

vars == << pc, exc, httpd, portHeld, nBind, stdout, pending, nConn, nAccepted,
           conns, kept, now >>

NoServer == [server_address |-> << "", 0 >>, socket |-> "none"]

\* A connection: the request read on it, its handler object, what was written
\* to the client, and "open", "aborted", "closed" (or "none": no connection).
NewConn == [req |-> NoReq, h |-> NewHandler, wfile |-> << >>, state |-> "open"]
NoConn == [NewConn EXCEPT !.state = "none"]

\* Connections whose handler is running.
Active == {c \in DOMAIN conns : conns[c].state = "open"}

Init ==
  /\ pc = "construct"
  /\ exc = "none"
  /\ httpd = NoServer
  /\ portHeld \in BOOLEAN
  /\ nBind = 0
  /\ stdout = << >>
  /\ pending = 0
  /\ nConn = 0
  /\ nAccepted = 0
  /\ conns = [c \in {} |-> NewConn]
  /\ kept = NoConn
  /\ now = 0

\* ------------------------------------------------------------ main thread

\* socket.bind raises OSError (EADDRINUSE): allow_reuse_address is False.
BindFailsIgnored == FALSE
BindFails == portHeld

\* socketserver.TCPServer(("", PORT), CORSRequestHandler): socket(), bind,
\* listen; on an error server_close() and the error propagates.
Construct ==
  /\ pc = "construct"
  /\ nBind' = nBind + 1
  /\ IF BindFails
     THEN /\ httpd' = [server_address |-> << "", PORT >>, socket |-> "closed"]
          /\ exc' = "OSError"
          /\ pc' = "exited"
     ELSE /\ httpd' = [server_address |-> << "0.0.0.0", PORT >>, socket |-> "listening"]
          /\ exc' = exc
          /\ pc' = "print"
  /\ UNCHANGED << portHeld, stdout, pending, nConn, nAccepted, conns, kept, now >>

\* The three print calls, one line each.
PrintLine ==
  /\ pc = "print"
  /\ Len(stdout) < Len(Banner)
  /\ stdout' = Append(stdout, Banner[Len(stdout) + 1])
  /\ UNCHANGED << pc, exc, httpd, portHeld, nBind, pending, nConn, nAccepted,
                  conns, kept, now >>

\* httpd.serve_forever() is entered.
ServeForever ==
  /\ pc = "print"
  /\ Len(stdout) = Len(Banner)
  /\ pc' = "serve"
  /\ UNCHANGED << exc, httpd, portHeld, nBind, stdout, pending, nConn, nAccepted,
                  conns, kept, now >>

\* process_request runs the handler in the calling thread: the loop is back
\* at select() only when no handler is running.
AcceptorFreeThreading == TRUE
AcceptorFree == Active = {}

\* serve_forever: select() reports the socket readable, get_request()
\* accepts, finish_request instantiates the handler.
AcceptConnection ==
  /\ pc = "serve"
  /\ AcceptorFree
  /\ pending > 0
  /\ pending' = pending - 1
  /\ nAccepted' = nAccepted + 1
  /\ conns' = [c \in DOMAIN conns \cup {nAccepted + 1} |->
                 IF c = nAccepted + 1 THEN NewConn ELSE conns[c]]
  /\ UNCHANGED << pc, exc, httpd, portHeld, nBind, stdout, nConn, kept, now >>

\* with ... as httpd: __exit__ calls server_close(), then the process ends
\* with the exception's traceback.
ServerClose ==
  /\ pc = "unwind"
  /\ httpd' = [httpd EXCEPT !.socket = "closed"]
  /\ pc' = "exited"
  /\ UNCHANGED << exc, portHeld, nBind, stdout, pending, nConn, nAccepted,
                  conns, kept, now >>

\* ---------------------------------------------------------------- handler

SetConn(c, h, wfile) ==
  conns' = [conns EXCEPT ![c] = [@ EXCEPT !.h = h, !.wfile = wfile]]

HandlerFrame ==
  UNCHANGED << pc, exc, httpd, portHeld, nBind, stdout, pending, nConn,
               nAccepted, kept, now >>

NextStep(h) ==
  IF h.todo # << >> THEN "respond"
  ELSE IF h.close_connection THEN "finish" ELSE "readline"

\* handle_one_request: rfile.readline, parse_request, the do_ method chosen.
ReadRequest(c) ==
  /\ c \in Active
  /\ conns[c].h.step = "readline"
  /\ \E req \in Requests :
       LET h1 == HandleOneRequest(conns[c].h, req)
       IN conns' = [conns EXCEPT ![c] =
                      [@ EXCEPT !.req = req, !.h = [h1 EXCEPT !.step = NextStep(h1)]]]
  /\ HandlerFrame

\* The base handler's send_response and send_header calls of one response.
Respond(c) ==
  /\ c \in Active
  /\ conns[c].h.step = "respond"
  /\ SetConn(c, [StartResponse(conns[c].h, now) EXCEPT !.step = "send_coop"],
             conns[c].wfile)
  /\ HandlerFrame

InjectFirst == COOP
InjectSecondRequireCorp == Hdr("Cross-Origin-Embedder-Policy", "require-corp")
InjectSecondRepeated == COOP
InjectSecond == COEP

\* Mutant: super().end_headers() called before the two send_header calls.
SendCOOPAfterFlush(c) ==
  /\ c \in Active
  /\ conns[c].h.step = "send_coop"
  /\ LET r == BaseEndHeaders(conns[c].h, conns[c].wfile)
     IN SetConn(c, [SendHeader(r[1], InjectFirst) EXCEPT !.step = "send_coep"], r[2])
  /\ HandlerFrame

\* Mutant: end_headers also prints a line.
SendCOOPLogging(c) ==
  /\ c \in Active
  /\ conns[c].h.step = "send_coop"
  /\ SetConn(c, [SendHeader(conns[c].h, InjectFirst) EXCEPT !.step = "send_coep"],
             conns[c].wfile)
  /\ stdout' = Append(stdout, "end_headers")
  /\ UNCHANGED << pc, exc, httpd, portHeld, nBind, pending, nConn, nAccepted, kept, now >>

\* end_headers, line 16.
SendCOOP(c) ==
  /\ c \in Active
  /\ conns[c].h.step = "send_coop"
  /\ SetConn(c, [SendHeader(conns[c].h, InjectFirst) EXCEPT !.step = "send_coep"],
             conns[c].wfile)
  /\ HandlerFrame

\* Mutant: the second header is added for the first connection only.
SendCOEPFirstConnectionOnly(c) ==
  /\ c \in Active
  /\ conns[c].h.step = "send_coep"
  /\ SetConn(c, [(IF nAccepted = 1 THEN SendHeader(conns[c].h, InjectSecond) ELSE conns[c].h)
                   EXCEPT !.step = "super_end_headers"],
             conns[c].wfile)
  /\ HandlerFrame

\* end_headers, line 17.
SendCOEP(c) ==
  /\ c \in Active
  /\ conns[c].h.step = "send_coep"
  /\ SetConn(c, [SendHeader(conns[c].h, InjectSecond) EXCEPT !.step = "super_end_headers"],
             conns[c].wfile)
  /\ HandlerFrame

\* Mutant: the override does not call super().end_headers().
SuperEndHeadersOmitted(c) ==
  /\ c \in Active
  /\ conns[c].h.step = "super_end_headers"
  /\ SetConn(c, [conns[c].h EXCEPT !.step = "body"], conns[c].wfile)
  /\ HandlerFrame

\* end_headers, line 18: super().end_headers().
SuperEndHeaders(c) ==
  /\ c \in Active
  /\ conns[c].h.step = "super_end_headers"
  /\ LET r == BaseEndHeaders(conns[c].h, conns[c].wfile)
     IN SetConn(c, [r[1] EXCEPT !.step = "body"], r[2])
  /\ HandlerFrame

\* The body the base handler writes after end_headers (send_error's HTML,
\* copyfile), then the next response or request, or the handler returns.
WriteBody(c) ==
  /\ c \in Active
  /\ conns[c].h.step = "body"
  /\ LET h == conns[c].h
         h1 == [h EXCEPT !.todo = Tail(h.todo)]
     IN SetConn(c, [h1 EXCEPT !.step = NextStep(h1)],
                WriteBodyTo(h, conns[c].wfile, Head(h.todo).body))
  /\ HandlerFrame

\* The handler returned: finish(), shutdown_request(); the loop goes on.
Finish(c) ==
  /\ c \in Active
  /\ conns[c].h.step = "finish"
  /\ conns' = [d \in DOMAIN conns \ {c} |-> conns[d]]
  /\ kept' \in {kept, [conns[c] EXCEPT !.state = "closed"]}
  /\ UNCHANGED << pc, exc, httpd, portHeld, nBind, stdout, pending, nConn,
                  nAccepted, now >>

\* _handle_request_noblock catches an Exception of the handler
\* (handle_error, shutdown_request) and returns to the loop.
PcAfterHandlerExceptionPropagates == "unwind"
PcAfterHandlerException == "serve"

\* A write to the client fails (the peer reset the connection).
HandlerError(c) ==
  /\ c \in Active
  /\ \/ conns[c].h.step = "super_end_headers" /\ conns[c].h.request_version # "HTTP/0.9"
     \/ conns[c].h.step = "body" /\ Head(conns[c].h.todo).body # ""
  /\ conns' = [d \in DOMAIN conns \ {c} |-> conns[d]]
  /\ pc' = PcAfterHandlerException
  /\ UNCHANGED << exc, httpd, portHeld, nBind, stdout, pending, nConn,
                  nAccepted, kept, now >>

\* ------------------------------------------------------------ environment

\* Mutant: the interruption lets a running handler finish first.
InterruptDrains ==
  /\ pc \in {"construct", "print", "serve"}
  /\ exc = "none"
  /\ exc' = "KeyboardInterrupt"
  /\ pc' = IF pc = "construct" THEN "exited" ELSE IF Active # {} THEN pc ELSE "unwind"
  /\ UNCHANGED << httpd, portHeld, nBind, stdout, pending, nConn, nAccepted,
                  conns, kept, now >>

\* Ctrl+C: KeyboardInterrupt is raised in the main thread, inside the
\* handler if one runs (shutdown_request, re-raise), and leaves the with block.
Interrupt ==
  /\ pc \in {"construct", "print", "serve"}
  /\ exc = "none"
  /\ exc' = "KeyboardInterrupt"
  /\ pc' = IF pc = "construct" THEN "exited" ELSE "unwind"
  /\ conns' = [c \in DOMAIN conns |-> [conns[c] EXCEPT !.state = "aborted"]]
  /\ UNCHANGED << httpd, portHeld, nBind, stdout, pending, nConn, nAccepted,
                  kept, now >>

\* A client connects; the kernel queues the connection.
ClientConnect ==
  /\ httpd.socket = "listening"
  /\ nConn < MaxConns
  /\ nConn' = nConn + 1
  /\ pending' = pending + 1
  /\ UNCHANGED << pc, exc, httpd, portHeld, nBind, stdout, nAccepted, conns,
                  kept, now >>

Tick ==
  /\ pc # "exited"
  /\ now < MaxClock
  /\ now' = now + 1
  /\ UNCHANGED << pc, exc, httpd, portHeld, nBind, stdout, pending, nConn,
                  nAccepted, conns, kept >>

Next ==
  \/ Construct
  \/ PrintLine
  \/ ServeForever
  \/ AcceptConnection
  \/ ServerClose
  \/ Interrupt
  \/ ClientConnect
  \/ Tick
  \/ \E c \in DOMAIN conns : ReadRequest(c)
  \/ \E c \in DOMAIN conns : Respond(c)
  \/ \E c \in DOMAIN conns : SendCOOP(c)
  \/ \E c \in DOMAIN conns : SendCOEP(c)
  \/ \E c \in DOMAIN conns : SuperEndHeaders(c)
  \/ \E c \in DOMAIN conns : WriteBody(c)
  \/ \E c \in DOMAIN conns : Finish(c)
  \/ \E c \in DOMAIN conns : HandlerError(c)

Spec == Init /\ [][Next]_vars

\* The main thread keeps running: once an exception unwinds the with block,
\* server_close is called and the process ends.
FairSpec == Spec /\ WF_vars(ServerClose)

\* ------------------------------------------- the base handler, not overridden

\* handle_one_request of SimpleHTTPRequestHandler itself (end_headers is
\* BaseHTTPRequestHandler.end_headers) on the responses still to produce:
\* the handler and what the client receives.
RECURSIVE BaseResponses(_, _, _)
BaseResponses(h, wfile, t) ==
  IF h.todo = << >> THEN [h |-> h, wfile |-> wfile]
  ELSE LET r == BaseEndHeaders(StartResponse(h, t), wfile)
       IN BaseResponses([r[1] EXCEPT !.todo = Tail(h.todo)],
                        WriteBodyTo(r[1], r[2], Head(h.todo).body), t)

BaseHandle(req, t) == BaseResponses(HandleOneRequest(NewHandler, req), << >>, t)

\* ----------------------------------------------------------- observations

Connections ==
  {conns[c] : c \in DOMAIN conns} \cup (IF kept.state = "none" THEN {} ELSE {kept})

\* Every response any client has received (in whole or in part).
Responses == UNION {{co.wfile[i] : i \in DOMAIN co.wfile} : co \in Connections}

HasHeaderBlock(r) == r.lines # << >>
Carries(r, hdr) == \E i \in DOMAIN r.lines : r.lines[i] = hdr
Count(r, k) == Cardinality({i \in DOMAIN r.lines : r.lines[i].k = k})
StatusOf(r) == r.lines[1].t

\* Connections whose handler has returned or is about to.
Served == {co \in Connections : co.state = "closed" \/ co.h.step = "finish"}

\* A header block with the two headers inserted before its blank line.
WithInjected(lines) ==
  IF lines = << >> THEN << COOP, COEP >>
  ELSE SubSeq(lines, 1, Len(lines) - 1) \o << COOP, COEP >> \o << lines[Len(lines)] >>

\* A header block with the value of its Date header (the clock) left out.
WithoutDate(lines) ==
  [i \in DOMAIN lines |-> IF lines[i].k = "Date" THEN HdrT("Date", 0) ELSE lines[i]]

\* ------------------------------------------------------------------ claims

\* C1 as stated: every response the server returns carries
\* Cross-Origin-Opener-Policy: same-origin and
\* Cross-Origin-Embedder-Policy: credentialless.
C1_EveryResponseCarriesBoth ==
  \A r \in Responses : Carries(r, COOP) /\ Carries(r, COEP)

\* C1 amended: every response that has a header block carries both headers,
\* whatever the path, the method or the status; a response sent while
\* request_version is HTTP/0.9 has no status line and no headers at all.
C1_EveryHeaderBlockCarriesBoth ==
  \A r \in Responses :
    IF HasHeaderBlock(r) THEN Carries(r, COOP) /\ Carries(r, COEP)
    ELSE ~Carries(r, COOP) /\ ~Carries(r, COEP)

C1_Witness ==
  /\ \E r \in Responses : HasHeaderBlock(r) /\ StatusOf(r) = 404 /\ Carries(r, COEP)
  /\ kept.state = "closed" /\ kept.wfile # << >>
  /\ HasHeaderBlock(kept.wfile[1]) /\ StatusOf(kept.wfile[1]) = 200
  /\ kept.req.words[1] = "HEAD"

\* C2 as stated: in every response each of the two injected headers appears
\* exactly once, never zero times and never twice.
C2_ExactlyOnceInEveryResponse ==
  \A r \in Responses :
    Count(r, COOP.k) = 1 /\ Count(r, COEP.k) = 1

\* C2 amended: in every response that has a header block each of the two
\* injected headers appears exactly once; a response without a header block
\* has neither, and no injected header is left behind in a handler's buffer
\* once its block was sent.
C2_ExactlyOncePerHeaderBlock ==
  /\ \A r \in Responses :
       IF HasHeaderBlock(r)
       THEN Count(r, COOP.k) = 1 /\ Count(r, COEP.k) = 1
       ELSE Count(r, COOP.k) = 0 /\ Count(r, COEP.k) = 0
  /\ \A co \in Connections :
       co.h.step \in {"body", "finish"} => co.h.headers_buffer = << >>

C2_Witness ==
  \E co \in Served :
    /\ Len(co.wfile) = 1
    /\ Count(co.wfile[1], COOP.k) = 1 /\ Count(co.wfile[1], COEP.k) = 1
    /\ co.wfile[1].body = "error-html"

\* C3 as stated: for every request the response is the base handler's
\* response to the same request with the two injected headers added, and the
\* status code is the base handler's.
C3_BaseResponsePlusHeaders ==
  \A co \in Served :
    LET base == BaseHandle(co.req, co.h.date)
    IN /\ co.h.status = base.h.status
       /\ co.wfile = [i \in DOMAIN base.wfile |->
                        [base.wfile[i] EXCEPT !.lines = WithInjected(@)]]

\* C3 amended: the status code, the body and every header of the base
\* handler's response are unchanged; the two injected headers are added at
\* the end of the header block when the response has one, and a response
\* without a header block is the base handler's response as it is.
C3_BaseResponseUnchanged ==
  \A co \in Served :
    LET base == BaseHandle(co.req, co.h.date)
    IN /\ co.h.status = base.h.status
       /\ co.h.close_connection = base.h.close_connection
       /\ co.wfile = [i \in DOMAIN base.wfile |->
                        IF HasHeaderBlock(base.wfile[i])
                        THEN [base.wfile[i] EXCEPT !.lines = WithInjected(@)]
                        ELSE base.wfile[i]]

C3_Witness ==
  /\ \E co \in Served :
       /\ co.req.words = << "GET", "/does-not-exist", "HTTP/1.1" >>
       /\ co.h.status = 404 /\ StatusOf(co.wfile[1]) = 404
  /\ \E co \in Served :
       /\ co.req.words = << "GET", "/index.html", "HTTP/1.1" >>
       /\ co.h.status = 200 /\ co.wfile[1].body = "file"

\* C4: when binding the port fails the process ends in a fatal startup
\* error after one bind attempt: nothing is printed, the accept loop is
\* never entered, no connection is queued, accepted or served.
C4_BindFailureIsFatal ==
  portHeld =>
    /\ pc \in {"construct", "exited"}
    /\ nBind <= 1
    /\ stdout = << >>
    /\ httpd.socket # "listening"
    /\ pending = 0 /\ nAccepted = 0 /\ Connections = {}
    /\ (nBind = 1 => pc = "exited" /\ exc = "OSError")

C4_Witness == portHeld /\ nBind = 1 /\ pc = "exited" /\ exc = "OSError"

\* C5: the banner is printed in full before any connection is accepted; an
\* idle accept loop with a queued connection can accept it; the accept loop
\* is left only by an interruption (a failing handler does not end it); and
\* once interrupted the process leaves the loop and exits.
C5_ServesUntilInterrupted ==
  /\ [](nAccepted > 0 \/ pc = "serve" => stdout = Banner)
  /\ [](pc = "serve" /\ Active = {} /\ pending > 0 => ENABLED AcceptConnection)
  /\ [][pc = "serve" /\ pc' # "serve" => exc' = "KeyboardInterrupt"]_vars
  /\ (exc = "KeyboardInterrupt") ~> (pc = "exited")

C5_Witness ==
  /\ pc = "exited" /\ exc = "KeyboardInterrupt"
  /\ stdout = Banner
  /\ nAccepted = 2
  /\ kept.state = "closed"

\* C6: the headers of the response to a request do not depend on how many
\* or which requests were served before it: two connections that sent the
\* same request received the same header blocks and bodies; only the value
\* of the Date header follows the clock.
C6_SameRequestSameHeaders ==
  \A a \in Served : \A b \in Served :
    a.req = b.req =>
      /\ Len(a.wfile) = Len(b.wfile)
      /\ \A i \in DOMAIN a.wfile :
           /\ WithoutDate(a.wfile[i].lines) = WithoutDate(b.wfile[i].lines)
           /\ a.wfile[i].body = b.wfile[i].body
           /\ a.h.date = b.h.date => a.wfile[i].lines = b.wfile[i].lines

C6_Witness ==
  /\ nAccepted = 3
  /\ kept.state = "closed"
  /\ \E c \in DOMAIN conns :
       /\ conns[c].h.step = "finish"
       /\ conns[c].req = kept.req
       /\ conns[c].wfile # << >> /\ HasHeaderBlock(conns[c].wfile[1])
       /\ conns[c].h.date # kept.h.date

\* C7 as stated: in every response the two injected headers are the last
\* two headers of the block.
C7_LastTwoInEveryResponse ==
  \A r \in Responses :
    /\ Len(r.lines) >= 3
    /\ r.lines[Len(r.lines) - 2] = COOP
    /\ r.lines[Len(r.lines) - 1] = COEP

\* C7 amended: every header block that reaches a client is complete: it
\* starts with the status line, ends with the blank line, and its last two
\* headers are Cross-Origin-Opener-Policy then Cross-Origin-Embedder-Policy,
\* after every header the base handler set; while the two are being added
\* nothing of the block has been sent.
C7_LastTwoInEveryHeaderBlock ==
  /\ \A r \in Responses :
       HasHeaderBlock(r) =>
         /\ Len(r.lines) >= 4
         /\ r.lines[1].k = ProtocolVersion
         /\ r.lines[Len(r.lines)] = BlankLine
         /\ r.lines[Len(r.lines) - 2] = COOP
         /\ r.lines[Len(r.lines) - 1] = COEP
  /\ \A co \in Connections :
       co.h.step \in {"send_coop", "send_coep", "super_end_headers"} =>
         ~co.h.flushed /\ co.wfile = << >>

C7_Witness ==
  \E c \in DOMAIN conns :
    /\ conns[c].h.step = "body"
    /\ Len(conns[c].wfile) = 1
    /\ Len(conns[c].wfile[1].lines) = 9
    /\ conns[c].wfile[1].lines[6].k = "Last-Modified"
    /\ conns[c].wfile[1].lines[7] = COOP

\* C8 as stated: a new connection can be accepted while the handler of an
\* earlier connection has not finished.
C8_AcceptsWhileHandling ==
  pc = "serve" /\ Active # {} /\ pending > 0 => ENABLED AcceptConnection

\* C8 amended: the acceptor is synchronous: at most one handler runs at a
\* time, and while it runs no connection is accepted; a queued connection
\* waits until the handler has returned.
C8_OneHandlerAtATime ==
  /\ Cardinality(Active) <= 1
  /\ Active # {} => ~ENABLED AcceptConnection

C8_Witness ==
  /\ pc = "serve" /\ pending = 2
  /\ \E c \in Active : conns[c].h.step = "body"

C10_NoDrainOnInterrupt ==
  /\ [][ /\ exc = "none" /\ exc' = "KeyboardInterrupt" =>
              /\ DOMAIN conns' = DOMAIN conns
              /\ \A c \in DOMAIN conns : conns'[c] = [conns[c] EXCEPT !.state = "aborted"]
         /\ exc = "KeyboardInterrupt" =>
              conns' = conns /\ kept' = kept /\ nAccepted' = nAccepted ]_vars
  /\ [](exc = "KeyboardInterrupt" => Active = {})
  /\ [](pc = "exited" => httpd.socket \in {"none", "closed"})

C10_Witness ==
  /\ pc = "exited" /\ exc = "KeyboardInterrupt" /\ httpd.socket = "closed"
  /\ pending > 0
  /\ \E c \in DOMAIN conns :
       /\ conns[c].state = "aborted"
       /\ conns[c].h.step = "body"
       /\ Head(conns[c].h.todo).body = "file"
       /\ Len(conns[c].wfile) = 1
       /\ HasHeaderBlock(conns[c].wfile[1])
       /\ conns[c].wfile[1].body = ""

====
